---- MODULE Spec2Model ----
(***************************************************************************)
(* The job orchestration loop of spatial_data_mining (orchestrator._run)   *)
(* and the variable registry it dispatches through.  One run of _run is    *)
(* modelled as a sequential program: `pc` is its position, the loop        *)
(* indices ai/si/yi/vi are the four nested for-loops, `files` is the       *)
(* output directory, `results`/`errors` are the two lists of _run.         *)
(* Text (variable names, AOI paths, seasons, file names) is a sequence of  *)
(* one-character strings so that lower(), slugify and stem are computed.   *)
(* The raster transforms (_clip_to_aoi, process_raster_to_target,          *)
(* process_clcplus_to_target) and get_variable are operators; `pure` holds *)
(* one call of one of them, applied to bounded inputs by SpecFunctions.    *)
(* `tmp_dir` is the temporary working directory of the unit in progress or *)
(* last ended; SpecTwoRuns runs _run a second time on the same output      *)
(* directory, `first_run` keeping what the first run returned and left.    *)
(***************************************************************************)
EXTENDS Integers, Sequences, FiniteSets, TLC

VARIABLES job, pc, ai, si, yi, vi, aoi, unit, var_slug_map, results, errors,
          files, stop, faults, trace, progress_cb, ret, summary, pure, run, first_run,
          tmp_dir

vars == <<job, pc, ai, si, yi, vi, aoi, unit, var_slug_map, results, errors,
          files, stop, faults, trace, progress_cb, ret, summary, pure, run, first_run,
          tmp_dir>>

\* The number of ordinary (non-cancellation) failures the collaborators
\* (AOI loader, extractor, transform, writer, upload, filesystem) raise in one run.
MaxFaults == 2

----------------------------------------------------------------------------
(* Text helpers *)

UpperChars == <<"A","B","C","D","E","F","G","H","I","J","K","L","M",
                "N","O","P","Q","R","S","T","U","V","W","X","Y","Z">>
LowerChars == <<"a","b","c","d","e","f","g","h","i","j","k","l","m",
                "n","o","p","q","r","s","t","u","v","w","x","y","z">>
DigitChars == <<"0","1","2","3","4","5","6","7","8","9">>

Range(s) == {s[i] : i \in DOMAIN s}

AlnumChars == Range(UpperChars) \cup Range(LowerChars) \cup Range(DigitChars)

IsAlnum(c) == c \in AlnumChars

\* The lower-case letter of every upper-case letter
LowerOf == [c \in Range(UpperChars) |->
               LowerChars[CHOOSE i \in DOMAIN UpperChars : UpperChars[i] = c]]

\* str.lower() on one character
LowerChar(c) == IF c \in DOMAIN LowerOf THEN LowerOf[c] ELSE c

\* str.lower()
Lower(s) == [i \in DOMAIN s |-> LowerChar(s[i])]

\* str(n) for a non-negative integer
RECURSIVE IntToStr(_)
IntToStr(n) ==
    IF n < 10 THEN <<DigitChars[n + 1]>>
    ELSE IntToStr(n \div 10) \o <<DigitChars[(n % 10) + 1]>>

\* re.sub(r"[^A-Za-z0-9]+", "_", s): every maximal run of non-alphanumerics becomes one "_"
RECURSIVE SubNonAlnum(_, _)
SubNonAlnum(s, inRun) ==
    IF s = <<>> THEN <<>>
    ELSE IF IsAlnum(Head(s)) THEN <<Head(s)>> \o SubNonAlnum(Tail(s), FALSE)
    ELSE IF inRun THEN SubNonAlnum(Tail(s), TRUE)
    ELSE <<"_">> \o SubNonAlnum(Tail(s), TRUE)

\* str.strip("_")
RECURSIVE StripUnderscores(_)
StripUnderscores(s) ==
    IF s = <<>> THEN <<>>
    ELSE IF Head(s) = "_" THEN StripUnderscores(Tail(s))
    ELSE IF s[Len(s)] = "_" THEN StripUnderscores(SubSeq(s, 1, Len(s) - 1))
    ELSE s

_slugify_name(name) ==
    LET slug == Lower(StripUnderscores(SubNonAlnum(name, FALSE)))
    IN  IF slug = <<>> THEN <<"a","o","i">> ELSE slug

\* Path(p).name: the text after the last "/"
RECURSIVE PathName(_)
PathName(p) ==
    IF \E i \in DOMAIN p : p[i] = "/"
    THEN PathName(SubSeq(p, (CHOOSE i \in DOMAIN p : p[i] = "/") + 1, Len(p)))
    ELSE p

\* Path(p).stem: the name without its last suffix
PathStem(p) ==
    LET n == PathName(p)
        dots == {i \in DOMAIN n : n[i] = "."}
        last == CHOOSE i \in dots : \A j \in dots : j <= i
    IN  IF dots # {} /\ last > 1 /\ last < Len(n) THEN SubSeq(n, 1, last - 1) ELSE n

----------------------------------------------------------------------------
(* The variable registry (variables/registry.py) *)

T_ndvi == <<"n","d","v","i">>
T_ndmi == <<"n","d","m","i">>
T_msi == <<"m","s","i">>
T_bsi == <<"b","s","i">>
T_alpha_earth == <<"a","l","p","h","a","_","e","a","r","t","h">>
T_clcplus == <<"c","l","c","p","l","u","s">>

\* The VARIABLES table: key -> extractor factory and transform function
VariablesTable ==
    { [key |-> T_ndvi, extractor |-> "GEEExtractor(NDVI)", transform |-> "process_raster_to_target"],
      [key |-> T_ndmi, extractor |-> "GEEExtractor(NDMI)", transform |-> "process_raster_to_target"],
      [key |-> T_msi, extractor |-> "GEEExtractor(MSI)", transform |-> "process_raster_to_target"],
      [key |-> T_bsi, extractor |-> "GEEExtractor(BSI)", transform |-> "process_raster_to_target"],
      [key |-> T_alpha_earth, extractor |-> "AlphaEarthExtractor", transform |-> "process_raster_to_target"],
      [key |-> T_clcplus, extractor |-> "CLCPlusExtractor", transform |-> "process_clcplus_to_target"] }

\* A bug: the name is looked up as it is spelled
get_variableCaseSensitive(name) ==
    LET hit == {e \in VariablesTable : e.key = name}
    IN  IF hit = {}
        THEN [raised |-> "KeyError", extractor |-> "none", transform |-> "none"]
        ELSE LET var_def == CHOOSE e \in hit : TRUE
             IN  [raised |-> "none", extractor |-> var_def.extractor,
                  transform |-> var_def.transform]

\* A bug: a name that is not registered falls back to the first binding
get_variableLenient(name) ==
    [raised |-> "none", extractor |-> "GEEExtractor(NDVI)",
     transform |-> "process_raster_to_target"]

\* get_variable(name): the binding, or the KeyError it raises
get_variable(name) ==
    LET key == Lower(name)
        hit == {e \in VariablesTable : e.key = key}
    IN  IF hit = {}
        THEN [raised |-> "KeyError", extractor |-> "none", transform |-> "none"]
        ELSE LET var_def == CHOOSE e \in hit : TRUE
             IN  [raised |-> "none", extractor |-> var_def.extractor,
                  transform |-> var_def.transform]

----------------------------------------------------------------------------
(* The raster transforms (transform/raster_ops.py)                          *)
(* A raster is one row of square cells: cell i covers [2(i-1), 2i] on the   *)
(* x axis and has its centre at 2i-1; `x0` is the index of its first cell.  *)
(* An AOI is the closed interval [lo, hi] of the same axis (lo = hi: a      *)
(* degenerate geometry).  A pixel is a number or NaN (masked).              *)

\* The number of cells of the rasters the transforms are applied to
RasterCells == 3

NaN == [nan |-> TRUE, v |-> 0]
Val(k) == [nan |-> FALSE, v |-> k]

\* The value process_clcplus_to_target writes for "no class" (lines 131-135)
CLCPLUS_NODATA == -999

\* The cells rasterio burns for the geometry: those whose centre lies inside
\* it, or with all_touched every cell the geometry overlaps
Burned(data, aoi_geom, all_touched) ==
    { k \in DOMAIN data.px :
        LET i == data.x0 + k - 1
        IN  IF all_touched
            THEN aoi_geom.lo < 2 * i /\ aoi_geom.hi > 2 * (i - 1)
            ELSE aoi_geom.lo < 2 * i - 1 /\ 2 * i - 1 < aoi_geom.hi }

\* data.rio.clip(geometries, crs, drop=True, all_touched=...): the raster cropped
\* to the burned cells; it raises when no cell is burned (NoDataInBounds) or when
\* the call is broken for another reason
rio_clip(data, aoi_geom, all_touched, broken) ==
    LET burned == Burned(data, aoi_geom, all_touched)
        first == CHOOSE k \in burned : \A m \in burned : k <= m
        last == CHOOSE k \in burned : \A m \in burned : m <= k
    IN  IF broken \/ burned = {}
        THEN [raised |-> TRUE, data |-> data]
        ELSE [raised |-> FALSE,
              data |-> [x0 |-> data.x0 + first - 1, px |-> SubSeq(data.px, first, last)]]

\* box(*data.rio.bounds()): the extent of the raster
RasterBox(data) == [lo |-> 2 * (data.x0 - 1), hi |-> 2 * (data.x0 - 1 + Len(data.px))]

\* shapely intersects(): the closed sets share a point
Intersects(a, b) == a.lo <= b.hi /\ b.lo <= a.hi

ClipReturn(data, calls, tier) ==
    [raised |-> FALSE, data |-> data, calls |-> calls, tier |-> tier]

ClipRaise(data, calls) ==
    [raised |-> TRUE, data |-> data, calls |-> calls, tier |-> "none"]

\* A bug: no retry with all_touched
_clip_to_aoiNoRetry(data, aoi_geom, clip_error) ==
    LET exact == rio_clip(data, aoi_geom, FALSE, clip_error \in {"exact", "both"})
    IN  IF ~exact.raised
        THEN ClipReturn(exact.data, <<"clip">>, "exact")
        ELSE ClipRaise(data, <<"clip">>)

\* A bug: the un-clipped raster is the fallback whether or not the raster meets the AOI
_clip_to_aoiAlwaysFallback(data, aoi_geom, clip_error) ==
    LET exact == rio_clip(data, aoi_geom, FALSE, clip_error \in {"exact", "both"})
        touched == rio_clip(data, aoi_geom, TRUE, clip_error = "both")
    IN  IF ~exact.raised
        THEN ClipReturn(exact.data, <<"clip">>, "exact")
        ELSE IF ~touched.raised
        THEN ClipReturn(touched.data, <<"clip", "clip_all_touched">>, "all_touched")
        ELSE ClipReturn(data, <<"clip", "clip_all_touched">>, "unclipped")

\* A bug: no fallback to the un-clipped raster
_clip_to_aoiNoFallback(data, aoi_geom, clip_error) ==
    LET exact == rio_clip(data, aoi_geom, FALSE, clip_error \in {"exact", "both"})
        touched == rio_clip(data, aoi_geom, TRUE, clip_error = "both")
    IN  IF ~exact.raised
        THEN ClipReturn(exact.data, <<"clip">>, "exact")
        ELSE IF ~touched.raised
        THEN ClipReturn(touched.data, <<"clip", "clip_all_touched">>, "all_touched")
        ELSE ClipRaise(data, <<"clip", "clip_all_touched">>)

\* _clip_to_aoi (lines 70-86): the exact clip; when it raises, the clip with
\* all_touched; when that raises too, the un-clipped raster if its extent meets
\* the AOI, and the error of the second clip if it does not
_clip_to_aoi(data, aoi_geom, clip_error) ==
    LET exact == rio_clip(data, aoi_geom, FALSE, clip_error \in {"exact", "both"})
        touched == rio_clip(data, aoi_geom, TRUE, clip_error = "both")
    IN  IF ~exact.raised
        THEN ClipReturn(exact.data, <<"clip">>, "exact")
        ELSE IF ~touched.raised
        THEN ClipReturn(touched.data, <<"clip", "clip_all_touched">>, "all_touched")
        ELSE IF ~Intersects(RasterBox(data), aoi_geom)
        THEN ClipRaise(data, <<"clip", "clip_all_touched", "bounds">>)
        ELSE ClipReturn(data, <<"clip", "clip_all_touched", "bounds">>, "unclipped")

\* What a transform returns: the raster it wrote (pixels, dtype, declared nodata),
\* the raster it had after the clip, and whether it logged a warning of the recode
Processed(clip, px, dtype, nodata, logged) ==
    [raised |-> FALSE, px |-> px, x0 |-> clip.data.x0, dtype |-> dtype, nodata |-> nodata,
     clipped |-> clip.data.px, tier |-> clip.tier, logged |-> logged]

TransformRaise(clip) ==
    [raised |-> TRUE, px |-> <<>>, x0 |-> 0, dtype |-> "none", nodata |-> NaN,
     clipped |-> <<>>, tier |-> clip.tier, logged |-> FALSE]

\* process_raster_to_target (lines 89-109) on the reprojected raster: clip and write
process_raster_to_target(data, aoi_geom, env) ==
    LET clip == _clip_to_aoi(data, aoi_geom, env.clip_error)
    IN  IF clip.raised THEN TransformRaise(clip)
        ELSE Processed(clip, clip.data.px, "float32", NaN, FALSE)

\* A bug: missing pixels are left as they are
fillnaNothing(px, k) == px

\* data.fillna(k)
fillna(px, k) == [i \in DOMAIN px |-> IF px[i].nan THEN Val(k) ELSE px[i]]

\* data.where(data != z, other=k): NaN != z is true
where_ne(px, z, k) ==
    [i \in DOMAIN px |-> IF px[i].nan \/ px[i].v # z THEN px[i] ELSE Val(k)]

\* Lines 133-137: astype("int32") and write_nodata(-999), each of which may raise;
\* the exception is logged and the raster is written as it then is
EnforceTyping(cast_error) ==
    CASE cast_error = "astype" -> [dtype |-> "float32", nodata |-> NaN, logged |-> TRUE]
      [] cast_error = "write_nodata" -> [dtype |-> "int32", nodata |-> NaN, logged |-> TRUE]
      [] OTHER -> [dtype |-> "int32", nodata |-> Val(CLCPLUS_NODATA), logged |-> FALSE]

\* A bug: no try around the cast and the nodata assignment: their exception
\* leaves the function and nothing is written
process_clcplus_to_targetStrict(data, aoi_geom, env) ==
    LET clip == _clip_to_aoi(data, aoi_geom, env.clip_error)
        recoded == where_ne(fillna(clip.data.px, CLCPLUS_NODATA), 0, CLCPLUS_NODATA)
    IN  IF clip.raised \/ env.cast_error # "none" THEN TransformRaise(clip)
        ELSE Processed(clip, recoded, "int32", Val(CLCPLUS_NODATA), FALSE)

\* process_clcplus_to_target (lines 112-141) on the reprojected raster: clip,
\* recode NaN and 0, enforce int32 and the declared nodata, write
process_clcplus_to_target(data, aoi_geom, env) ==
    LET clip == _clip_to_aoi(data, aoi_geom, env.clip_error)
        recoded == where_ne(fillna(clip.data.px, CLCPLUS_NODATA), 0, CLCPLUS_NODATA)
        typed == EnforceTyping(env.cast_error)
    IN  IF clip.raised THEN TransformRaise(clip)
        ELSE Processed(clip, recoded, typed.dtype, typed.nodata, typed.logged)

\* The value the note of the clcplus entry of VARIABLE_METADATA names (metadata.py)
METADATA_NOTE_NODATA == -9999

\* data.squeeze(name, drop=True) when the axis exists with size 1 (lines 18-21)
squeeze_singleton(dims, name) ==
    IF \E i \in DOMAIN dims : dims[i].name = name /\ dims[i].size = 1
    THEN SelectSeq(dims, LAMBDA d : d.name # name)
    ELSE dims

\* s[-2:] of a list with at least two elements
LastTwo(s) == SubSeq(s, Len(s) - 1, Len(s))

NormalizeRaise == [raised |-> "ValueError", dims |-> <<>>, y_dim |-> "none", x_dim |-> "none"]

\* A bug: only the axes other than band and variable are candidates, there is no
\* fall-back to the last two dimensions of any kind
_normalize_spatial_dimsNoFallback(dims) ==
    LET data == squeeze_singleton(squeeze_singleton(dims, "band"), "variable")
        names == [i \in DOMAIN data |-> data[i].name]
        spatial_dims == SelectSeq(names, LAMBDA d : d \notin {"band", "variable"})
    IN  IF "x" \in Range(names) /\ "y" \in Range(names)
        THEN [raised |-> "none", dims |-> names, y_dim |-> "y", x_dim |-> "x"]
        ELSE IF Len(spatial_dims) < 2 THEN NormalizeRaise
        ELSE LET yx == LastTwo(spatial_dims)
             IN  [raised |-> "none",
                  dims |-> [i \in DOMAIN names |-> IF names[i] = yx[2] THEN "x"
                                                    ELSE IF names[i] = yx[1] THEN "y"
                                                    ELSE names[i]],
                  y_dim |-> yx[1], x_dim |-> yx[2]]

\* _normalize_spatial_dims (lines 13-39) on the dimensions of a raster, a list of
\* named axes with their sizes: the names of the axes afterwards, the two axes
\* taken for y and x, or the ValueError of line 30
_normalize_spatial_dims(dims) ==
    LET data == squeeze_singleton(squeeze_singleton(dims, "band"), "variable")
        names == [i \in DOMAIN data |-> data[i].name]
        spatial_dims == SelectSeq(names, LAMBDA d : d \notin {"band", "variable"})
    IN  IF "x" \in Range(names) /\ "y" \in Range(names)
        THEN [raised |-> "none", dims |-> names, y_dim |-> "y", x_dim |-> "x"]
        ELSE IF Len(spatial_dims) < 2 /\ Len(names) < 2 THEN NormalizeRaise
        ELSE LET yx == IF Len(spatial_dims) >= 2 THEN LastTwo(spatial_dims)
                       ELSE LastTwo(names)
             IN  [raised |-> "none",
                  dims |-> [i \in DOMAIN names |-> IF names[i] = yx[2] THEN "x"
                                                    ELSE IF names[i] = yx[1] THEN "y"
                                                    ELSE names[i]],
                  y_dim |-> yx[1], x_dim |-> yx[2]]

\* Inputs of the transforms
PixelValues == {NaN, Val(0), Val(1), Val(2)}
Rasters == { [x0 |-> 1, px |-> p] : p \in [1..RasterCells -> PixelValues] }
Coords == 0..(2 * RasterCells + 2)
Aois == { r \in [lo : Coords, hi : Coords] : r.lo <= r.hi }
ClipErrors == {"none", "exact", "both"}
CastErrors == {"none", "astype", "write_nodata"}

\* Inputs of the dimension normalization: up to MaxDims axes with distinct names
\* and sizes 1 or 3.  A raster names both of x and y or neither: what xarray's
\* rename does when the new name is the name of another axis is not part of
\* raster_ops.py.
MaxDims == 3
AxisNames == {"band", "variable", "y", "x", "lat", "lon"}
AxisSizes == {1, 3}
IsDimList(dims) ==
    /\ \A i, j \in DOMAIN dims : dims[i].name = dims[j].name => i = j
    /\ (\E i \in DOMAIN dims : dims[i].name = "x") = (\E i \in DOMAIN dims : dims[i].name = "y")
DimLists ==
    UNION { { d \in [1..n -> [name : AxisNames, size : AxisSizes]] : IsDimList(d) } :
            n \in 0..MaxDims }

----------------------------------------------------------------------------
(* Job configurations the runs are drawn from *)

T_NDVI == <<"N","D","V","I">>
T_bogus == <<"b","o","g","u","s">>
T_summer == <<"s","u","m","m","e","r">>
T_winter == <<"w","i","n","t","e","r">>
AoiA == <<"d","a","t","a","/","A",".","g","e","o","j","s","o","n">>
AoiB == <<"d","a","t","a","/","B",".","g","e","o","j","s","o","n">>

JobConfigs ==
    { [aoi_paths |-> <<AoiA, AoiB>>, seasons |-> <<T_summer>>, years |-> <<2023>>,
       variables |-> <<T_ndvi, T_clcplus>>, kind |-> "local_cog", resolution_m |-> 20],
      [aoi_paths |-> <<AoiA>>, seasons |-> <<T_summer, T_winter>>, years |-> <<2023, 2024>>,
       variables |-> <<T_NDVI>>, kind |-> "gcs_cog", resolution_m |-> 20],
      [aoi_paths |-> <<AoiA>>, seasons |-> <<T_summer>>, years |-> <<2023>>,
       variables |-> <<T_ndvi, T_bogus>>, kind |-> "local_cog", resolution_m |-> 20],
      [aoi_paths |-> <<AoiA, AoiB>>, seasons |-> <<T_summer>>, years |-> <<2023>>,
       variables |-> <<T_ndvi, T_bogus>>, kind |-> "gcs_cog", resolution_m |-> 20],
      [aoi_paths |-> <<AoiA>>, seasons |-> <<T_summer>>, years |-> <<2023>>,
       variables |-> <<T_ndvi, T_NDVI>>, kind |-> "local_cog", resolution_m |-> 20] }

None == <<>>

----------------------------------------------------------------------------
(* State of one run of _run *)

NoAoi == [path |-> <<>>, slug |-> <<>>]
NoCall == [src_path |-> <<>>, resolution_m |-> 0]
NoUnit == [var_name |-> <<>>, var_slug |-> <<>>, transform |-> "none",
           raw_result |-> None, raw_path |-> <<>>, effective_res |-> 0,
           transform_call |-> NoCall,
           filename |-> <<>>, tmp_output |-> <<>>, gcs_uri |-> None]

Terminal == {"returned", "cancelled", "raised"}

\* The iterables of the four nested loops (lines 72, 87, 90, 92)
LoopAoi(i) == job.aoi_paths[i]
LoopSeason(i) == job.seasons[i]
LoopYear(i) == job.years[i]
LoopVarReversed(i) == job.variables[Len(job.variables) + 1 - i]
LoopVar(i) == job.variables[i]

\* A unit is named by its values: (AOI path, season, year, variable name)
NoU == <<<<>>, <<>>, 0, <<>>>>
AoiU(aoi_path) == <<aoi_path, <<>>, 0, <<>>>>
UnitU(var_name) == <<aoi.path, LoopSeason(si), LoopYear(yi), var_name>>
CurU == UnitU(unit.var_name)

\* One call of a collaborator (or one raising checkpoint) and how it ended:
\* "ok", "error" (an ordinary exception) or "cancelled" (PipelineCancelled)
Ev(op, u, status) == [op |-> op, u |-> u, status |-> status]

\* A file of the output directory: how much of it is written, whether it was
\* uploaded, and the unit that wrote it (NoU: an earlier run)
FileOf(complete, uploaded, by) == [complete |-> complete, uploaded |-> uploaded, by |-> by]

PutFile(fs, name, content) ==
    [n \in (DOMAIN fs) \cup {name} |-> IF n = name THEN content ELSE fs[n]]

RemoveFile(fs, name) == [n \in (DOMAIN fs) \ {name} |-> fs[n]]

\* f"{var_slug}_{year}_{season_slug}_{aoi_slug}.tif"
FinalName(var_slug, year, season_slug, aoi_slug) ==
    var_slug \o <<"_">> \o IntToStr(year) \o <<"_">> \o season_slug \o <<"_">> \o aoi_slug
        \o <<".","t","i","f">>

\* f".{filename}.{uuid.uuid4().hex}.tmp.tif"; the uuid is a number never used before
TmpName(filename, uuid) ==
    <<".">> \o filename \o <<".">> \o IntToStr(uuid) \o <<".","t","m","p",".","t","i","f">>

\* The final names of every unit of a job
AllFinalNames(j) ==
    { FinalName(_slugify_name(j.variables[v]), j.years[y], _slugify_name(j.seasons[s]),
                _slugify_name(PathStem(j.aoi_paths[a]))) :
        a \in DOMAIN j.aoi_paths, s \in DOMAIN j.seasons, y \in DOMAIN j.years,
        v \in DOMAIN j.variables }

\* The progress message that ends a run (lines 241-246); none before the end
NoSummary == [message |-> "none", N |-> 0]

\* No call of a raster or registry function is under way
Idle == [fn |-> "none", arg |-> <<>>, done |-> TRUE, out |-> <<>>]

\* What the first of two runs over the same output directory left and returned, and
\* the number of temporary names it drew; nothing before the second run starts
NoFirst == [ret |-> <<>>, files |-> <<>>, uuids |-> 0]

Init ==
    /\ job \in JobConfigs
    /\ pc = "start"
    /\ ai = 0 /\ si = 0 /\ yi = 0 /\ vi = 0
    /\ aoi = NoAoi
    /\ unit = NoUnit
    /\ var_slug_map = <<>>
    /\ results = <<>>
    /\ errors = <<>>
    /\ \E prior \in BOOLEAN :
         files = IF prior
                 THEN [n \in AllFinalNames(job) |-> FileOf(TRUE, job.kind = "gcs_cog", NoU)]
                 ELSE <<>>
    /\ stop = FALSE
    /\ faults = 0
    /\ trace = <<>>
    /\ progress_cb \in {"works", "raises"}
    /\ ret = <<>>
    /\ summary = NoSummary
    /\ pure = Idle
    /\ run = 1
    /\ first_run = NoFirst
    /\ tmp_dir = "none"

----------------------------------------------------------------------------
(* Cancellation (utils/cancellation.py) and the checkpoints of _run *)

\* check_cancelled(should_stop): raises PipelineCancelled when should_stop() is true
check_cancelled == stop

\* _check_stop() of _run
_check_stop == check_cancelled

\* The checkpoints, by the line of _run that calls _check_stop
StopAtStart == _check_stop
StopBeforeAoi == _check_stop
StopBeforeSeason == _check_stop
StopBeforeYear == _check_stop
NoStopBeforeUnit == FALSE
StopBeforeUnit == _check_stop
StopAfterExtract == _check_stop
StopAfterTransform == _check_stop
StopAfterWrite == _check_stop
StopBeforeUpload == _check_stop
NoStopAfterUpload == FALSE
StopAfterUpload == _check_stop
StopAfterRename == _check_stop

\* The user (or the caller's should_stop predicate) asks the run to stop
RequestStop ==
    /\ pc \notin Terminal
    /\ ~stop
    /\ stop' = TRUE
    /\ UNCHANGED <<tmp_dir, run, first_run, progress_cb, ret, summary, pure, job, pc, ai, si, yi, vi, aoi, unit,
                   var_slug_map, results, errors, files, faults, trace>>

----------------------------------------------------------------------------
(* Records and the handlers of _run *)

\* The ErrorRecord of the unit in progress (lines 225-234)
UnitErrorRecord(msg) ==
    [aoi |-> aoi.slug, aoi_path |-> aoi.path, variable |-> unit.var_name,
     year |-> LoopYear(yi), season |-> LoopSeason(si), error |-> msg]

\* The ErrorRecord of an AOI that failed to load (line 84)
AoiErrorRecord(aoi_path, msg) == [aoi_path |-> aoi_path, error |-> msg]

\* A bug: the ResultRecord names the temporary file
ResultRecordTmpPath(gcs_uri) ==
    [aoi |-> aoi.slug, aoi_path |-> aoi.path, variable |-> unit.var_name,
     year |-> LoopYear(yi), season |-> LoopSeason(si),
     local_path |-> unit.tmp_output, gcs_uri |-> gcs_uri]

\* The ResultRecord of the unit in progress (lines 187-197)
ResultRecord(gcs_uri) ==
    [aoi |-> aoi.slug, aoi_path |-> aoi.path, variable |-> unit.var_name,
     year |-> LoopYear(yi), season |-> LoopSeason(si),
     local_path |-> unit.filename, gcs_uri |-> gcs_uri]

\* A bug: the unit's handler re-raises instead of recording and continuing
UnitFailedAborts(msg) ==
    /\ pc' = "raised"
    /\ UNCHANGED <<ai, si, yi, vi, aoi, unit, var_slug_map, results, errors>>

\* `except Exception` of the unit (lines 213-235): one ErrorRecord, then `continue`
UnitFailed(msg) ==
    /\ errors' = Append(errors, UnitErrorRecord(msg))
    /\ pc' = "var_loop"
    /\ vi' = vi + 1
    /\ unit' = NoUnit
    /\ UNCHANGED <<ai, si, yi, aoi, var_slug_map, results>>

\* A bug: the failed AOI is recorded but its units are run all the same
AoiFailedNoSkip(aoi_path, msg) ==
    /\ errors' = Append(errors, AoiErrorRecord(aoi_path, msg))
    /\ aoi' = [path |-> aoi_path, slug |-> _slugify_name(PathStem(aoi_path))]
    /\ pc' = "season_loop"
    /\ si' = 1
    /\ UNCHANGED <<ai, yi, vi, unit, var_slug_map, results>>

\* `except Exception` of the AOI (lines 81-85): one ErrorRecord, then `continue`
AoiFailed(aoi_path, msg) ==
    /\ errors' = Append(errors, AoiErrorRecord(aoi_path, msg))
    /\ ai' = ai + 1
    /\ UNCHANGED <<pc, si, yi, vi, aoi, unit, var_slug_map, results>>

\* A bug: `except Exception` placed first, so the cancellation is recorded as an
\* ordinary failure and the run ends normally
CancelledAsError ==
    /\ errors' = Append(errors, [error |-> "cancelled"])
    /\ pc' = "returned"
    /\ UNCHANGED <<ai, si, yi, vi, aoi, unit, var_slug_map, results>>

\* `except PipelineCancelled: ... raise` (lines 79-80, 209-212, 236-239):
\* the signal leaves _run, nothing is recorded
RaiseCancelled ==
    /\ pc' = "cancelled"
    /\ UNCHANGED <<ai, si, yi, vi, aoi, unit, var_slug_map, results, errors>>

\* A bug: the `finally` unlinks the final file instead of the temporary one
FinallyUnlinksFinal(fs, unlink_ok) ==
    IF unit.filename \in DOMAIN fs /\ unlink_ok
    THEN RemoveFile(fs, unit.filename)
    ELSE fs

\* A bug: the temporary file is never unlinked
FinallyNoUnlink(fs, unlink_ok) == fs

\* The `finally` of the commit block (lines 174-179): unlink the temporary file when
\* it exists; an unlink that raises is swallowed and leaves the file
Finally(fs, unlink_ok) ==
    IF unit.tmp_output \in DOMAIN fs /\ unlink_ok
    THEN RemoveFile(fs, unit.tmp_output)
    ELSE fs

FinallyEvents(fs, unlink_ok) ==
    IF unit.tmp_output \in DOMAIN fs /\ ~unlink_ok
    THEN <<Ev("unlink", CurU, "error")>>
    ELSE <<>>

\* What the environment may do in one step: raise at most MaxFaults ordinary errors
\* in a run, and fail an unlink only where one is attempted
Budget(fs, failed, finally_runs, unlink_ok) ==
    LET cost == (IF failed THEN 1 ELSE 0) + (IF unlink_ok THEN 0 ELSE 1)
    IN  /\ unlink_ok \/ (finally_runs /\ unit.tmp_output \in DOMAIN fs)
        /\ faults + cost <= MaxFaults
        /\ faults' = faults + cost

\* An exit from the commit block of lines 155-179 by an exception: the `finally`,
\* then the handler of the unit for an ordinary error or for the cancellation
CommitExit(fs, how, msg, evs, unlink_ok) ==
    /\ Budget(fs, how = "error", TRUE, unlink_ok)
    /\ files' = Finally(fs, unlink_ok)
    /\ trace' = trace \o evs \o FinallyEvents(fs, unlink_ok)
    /\ IF how = "cancelled" THEN RaiseCancelled ELSE UnitFailed(msg)

\* The positions of _run inside the unit's `with tempfile.TemporaryDirectory(...)`
\* block (lines 115-208), after extractor.extract returned
InWith == {"transform", "write", "writing", "upload", "uploading", "rename"}

\* A bug: TemporaryDirectory without ignore_cleanup_errors: a failed removal raises
TemporaryDirectoryExitStrict(rmtree_ok) ==
    [dir |-> IF rmtree_ok THEN "removed" ELSE "left", raised |-> ~rmtree_ok]

\* TemporaryDirectory(dir=output_dir, ignore_cleanup_errors=True).__exit__ (lines
\* 115-117): the directory tree is removed; a removal that fails leaves the
\* directory and raises nothing
TemporaryDirectoryExit(rmtree_ok) ==
    [dir |-> IF rmtree_ok THEN "removed" ELSE "left", raised |-> FALSE]

\* The `with` block of lines 115-208: the directory exists while the unit is inside
\* the block, and every way out of the block, by its end or by an exception, runs
\* __exit__
WithExit(rmtree_ok) ==
    tmp_dir' = IF pc' \in InWith THEN "open" ELSE TemporaryDirectoryExit(rmtree_ok).dir

\* A bug: _notify without its try/except: the callback's exception propagates
_notifyUnprotected(cb) ==
    [called |-> cb # "none", raised |-> cb = "raises", logged |-> FALSE]

\* _notify(cb, message) (lines 22-27): no call when there is no callback; an
\* exception of the callback is caught and logged, _notify returns normally
_notify(cb) ==
    [called |-> cb # "none", raised |-> FALSE, logged |-> cb = "raises"]

\* Where an exception raised at a notification point of _run would go: to the
\* handler of the enclosing try, the AOI's (lines 81-85) or the unit's (lines
\* 213-235, after the `finally` of the commit block), or out of _run
NotifyRaised(context) ==
    /\ CASE context = "unit" -> /\ UnitFailed("progress_cb")
                                /\ files' = Finally(files, TRUE)
         [] context = "aoi" -> /\ AoiFailed(LoopAoi(ai), "progress_cb")
                               /\ UNCHANGED files
         [] OTHER -> /\ pc' = "raised"
                     /\ UNCHANGED <<ai, si, yi, vi, aoi, unit, var_slug_map, results,
                                    errors, files>>
    /\ UNCHANGED <<tmp_dir, run, first_run, progress_cb, ret, summary, pure, job, stop, faults, trace>>

----------------------------------------------------------------------------
(* The steps of _run *)

\* Lines 49-69: announce the job, create the output directory, two checkpoints
Setup ==
    /\ pc = "start"
    /\ IF _notify(progress_cb).raised THEN NotifyRaised("run") ELSE
       /\ IF StopAtStart
          THEN /\ RaiseCancelled
               /\ trace' = Append(trace, Ev("check_stop", NoU, "cancelled"))
          ELSE /\ pc' = "aoi_loop"
               /\ ai' = 1
               /\ UNCHANGED <<si, yi, vi, aoi, unit, var_slug_map, results, errors, trace>>
       /\ UNCHANGED <<tmp_dir, run, first_run, progress_cb, ret, summary, pure, job, files, stop, faults>>

\* Lines 72-85: the next AOI: checkpoint, load_aoi and get_aoi_geometries, slug
LoadAoi ==
    /\ pc = "aoi_loop"
    /\ ai <= Len(job.aoi_paths)
    /\ IF _notify(progress_cb).raised THEN NotifyRaised("aoi") ELSE
       /\ LET aoi_path == LoopAoi(ai) IN
          IF StopBeforeAoi
          THEN /\ RaiseCancelled
               /\ trace' = Append(trace, Ev("check_stop", AoiU(aoi_path), "cancelled"))
               /\ UNCHANGED <<stop, faults>>
          ELSE \E outcome \in {"ok", "error", "cancelled"} :
               /\ trace' = Append(trace, Ev("load_aoi", AoiU(aoi_path), outcome))
               /\ CASE outcome = "ok" ->
                         /\ aoi' = [path |-> aoi_path, slug |-> _slugify_name(PathStem(aoi_path))]
                         /\ pc' = "season_loop"
                         /\ si' = 1
                         /\ UNCHANGED <<ai, yi, vi, unit, var_slug_map, results, errors,
                                        stop, faults>>
                    [] outcome = "error" ->
                         /\ faults < MaxFaults
                         /\ faults' = faults + 1
                         /\ AoiFailed(aoi_path, "load_aoi")
                         /\ UNCHANGED stop
                    [] outcome = "cancelled" ->
                         /\ stop' = TRUE
                         /\ RaiseCancelled
                         /\ UNCHANGED faults
       /\ UNCHANGED <<tmp_dir, run, first_run, progress_cb, ret, summary, pure, job, files>>

\* Lines 241-246: the last progress message says whether ErrorRecords exist
SummaryMessage(errs) ==
    IF errs # <<>>
    THEN [message |-> "Job completed with N error(s); see logs for details.", N |-> Len(errs)]
    ELSE [message |-> "Job completed.", N |-> 0]

\* A bug: a run with ErrorRecords returns nothing
ReturnValueNoneOnError(rs, errs) == IF errs # <<>> THEN <<>> ELSE rs

\* Line 247: `return results`
ReturnValue(rs, errs) == rs

\* Lines 241-247: the AOI loop is exhausted: summary and `return results`
Return ==
    /\ pc = "aoi_loop"
    /\ ai > Len(job.aoi_paths)
    /\ IF _notify(progress_cb).raised THEN NotifyRaised("run") ELSE
       /\ pc' = "returned"
       /\ summary' = SummaryMessage(errors)
       /\ ret' = ReturnValue(results, errors)
       /\ UNCHANGED <<tmp_dir, run, first_run, progress_cb, pure, job, ai, si, yi, vi, aoi, unit, var_slug_map,
                      results, errors, files, stop, faults, trace>>

\* Lines 87-89: the next season of the AOI, or the end of the season loop
NextSeason ==
    /\ pc = "season_loop"
    /\ IF si > Len(job.seasons)
       THEN /\ pc' = "aoi_loop"
            /\ ai' = ai + 1
            /\ UNCHANGED <<si, yi, vi, aoi, unit, var_slug_map, results, errors, trace>>
       ELSE IF StopBeforeSeason
       THEN /\ RaiseCancelled
            /\ trace' = Append(trace, Ev("check_stop", NoU, "cancelled"))
       ELSE /\ pc' = "year_loop"
            /\ yi' = 1
            /\ UNCHANGED <<ai, si, vi, aoi, unit, var_slug_map, results, errors, trace>>
    /\ UNCHANGED <<tmp_dir, run, first_run, progress_cb, ret, summary, pure, job, files, stop, faults>>

\* Lines 90-91: the next year of the season, or the end of the year loop
NextYear ==
    /\ pc = "year_loop"
    /\ IF yi > Len(job.years)
       THEN /\ pc' = "season_loop"
            /\ si' = si + 1
            /\ UNCHANGED <<ai, yi, vi, aoi, unit, var_slug_map, results, errors, trace>>
       ELSE IF StopBeforeYear
       THEN /\ RaiseCancelled
            /\ trace' = Append(trace, Ev("check_stop", NoU, "cancelled"))
       ELSE /\ pc' = "var_loop"
            /\ vi' = 1
            /\ UNCHANGED <<ai, si, yi, aoi, unit, var_slug_map, results, errors, trace>>
    /\ UNCHANGED <<tmp_dir, run, first_run, progress_cb, ret, summary, pure, job, files, stop, faults>>

\* var_slug_map after lines 94-95
SlugMapWith(var_name) ==
    IF \E i \in DOMAIN var_slug_map : var_slug_map[i].name = var_name
    THEN var_slug_map
    ELSE Append(var_slug_map, [name |-> var_name, slug |-> _slugify_name(var_name)])

\* var_slug_map[var_name] (line 96)
SlugOf(map, var_name) ==
    (CHOOSE e \in Range(map) : e.name = var_name).slug

\* Lines 92-110: the next variable of the year (a unit starts): checkpoint, slug,
\* get_variable; get_variable is called outside the unit's try block, so its
\* KeyError is caught by no handler of _run and leaves _run
BeginUnit ==
    /\ pc = "var_loop"
    /\ IF _notify(progress_cb).raised THEN NotifyRaised("run") ELSE
       /\ IF vi > Len(job.variables)
          THEN /\ pc' = "year_loop"
               /\ yi' = yi + 1
               /\ UNCHANGED <<ai, si, vi, aoi, unit, var_slug_map, results, errors, trace>>
          ELSE LET var_name == LoopVar(vi)
                   map == SlugMapWith(var_name)
                   var_def == get_variable(var_name)
               IN  IF StopBeforeUnit
                   THEN /\ RaiseCancelled
                        /\ trace' = Append(trace, Ev("check_stop", UnitU(var_name), "cancelled"))
                   ELSE /\ var_slug_map' = map
                        /\ UNCHANGED <<ai, si, yi, vi, aoi, results, errors>>
                        /\ IF var_def.raised # "none"
                           THEN /\ pc' = "raised"
                                /\ trace' = Append(trace, Ev("get_variable", UnitU(var_name), "error"))
                                /\ UNCHANGED unit
                           ELSE /\ pc' = "extract"
                                /\ trace' = Append(trace, Ev("get_variable", UnitU(var_name), "ok"))
                                /\ unit' = [NoUnit EXCEPT !.var_name = var_name,
                                                          !.var_slug = SlugOf(map, var_name),
                                                          !.transform = var_def.transform]
       /\ UNCHANGED <<tmp_dir, run, first_run, progress_cb, ret, summary, pure, job, files, stop, faults>>

T_raw == <<"r","a","w",".","t","i","f">>

\* What extractor.extract may return (line 127): a bare path, or a pair of the path
\* and the resolution the extractor really used
ExtractorReturns(requested) ==
    { [tuple |-> FALSE, path |-> T_raw, res |-> 0],
      [tuple |-> TRUE, path |-> T_raw, res |-> requested \div 2] }

\* raw_path of lines 127-131
RawPath(raw_result) == raw_result.path

\* A bug: the resolution of the request is passed on whatever the extractor returned
EffectiveResRequested(raw_result, requested) == requested

\* effective_res of lines 127-131
EffectiveRes(raw_result, requested) ==
    IF raw_result.tuple THEN raw_result.res ELSE requested

\* The keyword arguments of transform_fn (lines 138-143)
TransformCall == [src_path |-> unit.raw_path, resolution_m |-> unit.effective_res]

\* Lines 115-136: extractor.extract in the unit's temporary directory, then a checkpoint.
\* The extractor polls should_stop itself and may raise PipelineCancelled.
Extract ==
    /\ pc = "extract"
    /\ IF _notify(progress_cb).raised THEN NotifyRaised("unit") ELSE
       /\ \E outcome \in {"ok", "error", "cancelled"} :
          CASE outcome = "ok" ->
                 /\ IF StopAfterExtract
                    THEN /\ RaiseCancelled
                         /\ trace' = trace \o <<Ev("extract", CurU, "ok"),
                                                Ev("check_stop", CurU, "cancelled")>>
                    ELSE /\ \E raw_result \in ExtractorReturns(job.resolution_m) :
                              unit' = [unit EXCEPT !.raw_result = raw_result,
                                                   !.raw_path = RawPath(raw_result),
                                                   !.effective_res =
                                                       EffectiveRes(raw_result, job.resolution_m)]
                         /\ pc' = "transform"
                         /\ trace' = Append(trace, Ev("extract", CurU, "ok"))
                         /\ UNCHANGED <<ai, si, yi, vi, aoi, var_slug_map, results, errors>>
                 /\ UNCHANGED <<stop, faults>>
            [] outcome = "error" ->
                 /\ faults < MaxFaults
                 /\ faults' = faults + 1
                 /\ trace' = Append(trace, Ev("extract", CurU, "error"))
                 /\ UnitFailed("extract")
                 /\ UNCHANGED stop
            [] outcome = "cancelled" ->
                 /\ stop' = TRUE
                 /\ trace' = Append(trace, Ev("extract", CurU, "cancelled"))
                 /\ RaiseCancelled
                 /\ UNCHANGED faults
       /\ UNCHANGED <<run, first_run, progress_cb, ret, summary, pure, job, files>>
       /\ \E rmtree_ok \in BOOLEAN : WithExit(rmtree_ok)

\* uuid.uuid4().hex of line 152: a value no earlier temporary name used, in this
\* run or in the run before it
NextUuid ==
    first_run.uuids + Cardinality({i \in DOMAIN trace : trace[i].op = "transform"}) + 1

\* Lines 138-152: transform_fn, a checkpoint, then the final and temporary names
Transform ==
    /\ pc = "transform"
    /\ IF _notify(progress_cb).raised THEN NotifyRaised("unit") ELSE
       /\ \E outcome \in {"ok", "error"} :
          CASE outcome = "ok" ->
                 /\ IF StopAfterTransform
                    THEN /\ RaiseCancelled
                         /\ trace' = trace \o <<Ev("transform", CurU, "ok"),
                                                Ev("check_stop", CurU, "cancelled")>>
                    ELSE LET filename == FinalName(unit.var_slug, LoopYear(yi),
                                                   _slugify_name(LoopSeason(si)), aoi.slug)
                         IN  /\ unit' = [unit EXCEPT !.transform_call = TransformCall,
                                                     !.filename = filename,
                                                     !.tmp_output = TmpName(filename, NextUuid)]
                             /\ pc' = "write"
                             /\ trace' = Append(trace, Ev("transform", CurU, "ok"))
                             /\ UNCHANGED <<ai, si, yi, vi, aoi, var_slug_map, results, errors>>
                 /\ UNCHANGED faults
            [] outcome = "error" ->
                 /\ faults < MaxFaults
                 /\ faults' = faults + 1
                 /\ trace' = Append(trace, Ev("transform", CurU, "error"))
                 /\ UnitFailed("transform")
       /\ UNCHANGED <<run, first_run, progress_cb, ret, summary, pure, job, files, stop>>
       /\ \E rmtree_ok \in BOOLEAN : WithExit(rmtree_ok)

\* A bug: write_cog is given the final name
WriteTargetFinal == unit.filename

\* The file write_cog writes (line 156): the temporary sibling
WriteTarget == unit.tmp_output

\* A bug: the upload is skipped
AfterWriteNoUpload == "rename"

\* Line 159: only the remote object store uploads before the rename
AfterWrite == IF job.kind = "gcs_cog" THEN "upload" ELSE "rename"

\* Line 156, first half: write_cog starts; it either fails before it creates the
\* file or leaves a partly written file while it runs
WriteCog ==
    /\ pc = "write"
    /\ \E outcome \in {"started", "error"} :
       CASE outcome = "started" ->
              /\ files' = PutFile(files, WriteTarget, FileOf(FALSE, FALSE, CurU))
              /\ pc' = "writing"
              /\ UNCHANGED <<ai, si, yi, vi, aoi, unit, var_slug_map, results, errors,
                             faults, trace>>
         [] outcome = "error" ->
              CommitExit(files, "error", "write_cog", <<Ev("write_cog", CurU, "error")>>, TRUE)
    /\ UNCHANGED <<run, first_run, progress_cb, ret, summary, pure, job, stop>>
    /\ \E rmtree_ok \in BOOLEAN : WithExit(rmtree_ok)

\* Lines 156-157, second half: write_cog returns or raises, then a checkpoint
WriteCogEnd ==
    /\ pc = "writing"
    /\ \E outcome \in {"ok", "error"}, unlink_ok \in BOOLEAN :
       CASE outcome = "ok" ->
              LET written == PutFile(files, WriteTarget, FileOf(TRUE, FALSE, CurU)) IN
              IF StopAfterWrite
              THEN CommitExit(written, "cancelled", "",
                              <<Ev("write_cog", CurU, "ok"),
                                Ev("check_stop", CurU, "cancelled")>>, unlink_ok)
              ELSE /\ unlink_ok
                   /\ files' = written
                   /\ pc' = AfterWrite
                   /\ trace' = Append(trace, Ev("write_cog", CurU, "ok"))
                   /\ UNCHANGED <<ai, si, yi, vi, aoi, unit, var_slug_map, results,
                                  errors, faults>>
         [] outcome = "error" ->
              CommitExit(files, "error", "write_cog", <<Ev("write_cog", CurU, "error")>>,
                         unlink_ok)
    /\ UNCHANGED <<run, first_run, progress_cb, ret, summary, pure, job, stop>>
    /\ \E rmtree_ok \in BOOLEAN : WithExit(rmtree_ok)

\* Lines 159-161, first half: gcs_cog only: a checkpoint, then upload_to_gcs starts
UploadBegin ==
    /\ pc = "upload"
    /\ \E unlink_ok \in BOOLEAN :
       IF StopBeforeUpload
       THEN CommitExit(files, "cancelled", "", <<Ev("check_stop", CurU, "cancelled")>>,
                       unlink_ok)
       ELSE /\ unlink_ok
            /\ pc' = "uploading"
            /\ UNCHANGED <<ai, si, yi, vi, aoi, unit, var_slug_map, results, errors,
                           files, faults, trace>>
    /\ UNCHANGED <<run, first_run, progress_cb, ret, summary, pure, job, stop>>
    /\ \E rmtree_ok \in BOOLEAN : WithExit(rmtree_ok)

\* upload_to_gcs(tmp_output, bucket, prefix): the URI of the uploaded object
GcsUri(local) == <<"g","s",":","/","/">> \o local

\* Lines 161-169, second half: upload_to_gcs returns its URI or raises, then a checkpoint
UploadEnd ==
    /\ pc = "uploading"
    /\ IF _notify(progress_cb).raised THEN NotifyRaised("unit") ELSE
       /\ \E outcome \in {"ok", "error"}, unlink_ok \in BOOLEAN :
          CASE outcome = "ok" ->
                 LET uploaded == PutFile(files, unit.tmp_output, FileOf(TRUE, TRUE, CurU)) IN
                 IF StopAfterUpload
                 THEN CommitExit(uploaded, "cancelled", "",
                                 <<Ev("upload", CurU, "ok"),
                                   Ev("check_stop", CurU, "cancelled")>>, unlink_ok)
                 ELSE /\ unlink_ok
                      /\ files' = uploaded
                      /\ unit' = [unit EXCEPT !.gcs_uri = GcsUri(unit.tmp_output)]
                      /\ pc' = "rename"
                      /\ trace' = Append(trace, Ev("upload", CurU, "ok"))
                      /\ UNCHANGED <<ai, si, yi, vi, aoi, var_slug_map, results, errors,
                                     faults>>
            [] outcome = "error" ->
                 CommitExit(files, "error", "upload", <<Ev("upload", CurU, "error")>>,
                            unlink_ok)
       /\ UNCHANGED <<run, first_run, progress_cb, ret, summary, pure, job, stop>>
       /\ \E rmtree_ok \in BOOLEAN : WithExit(rmtree_ok)

\* tmp_output.replace(local_output) (line 173): one rename that overwrites the target
Replace(fs, src, dst) == RemoveFile(PutFile(fs, dst, fs[src]), src)

\* Lines 173-208: the rename to the final name, the `finally`, a checkpoint, the
\* ResultRecord, and the end of the unit.  A rename whose source is missing raises.
Rename ==
    /\ pc = "rename"
    /\ IF _notify(progress_cb).raised THEN NotifyRaised("unit") ELSE
       /\ \E outcome \in {"ok", "error"}, unlink_ok \in BOOLEAN, rmtree_ok \in BOOLEAN :
          /\ CASE outcome = "ok" ->
                 /\ unlink_ok
                 /\ unit.tmp_output \in DOMAIN files
                 /\ files' = Finally(Replace(files, unit.tmp_output, unit.filename), TRUE)
                 /\ IF StopAfterRename
                    THEN /\ RaiseCancelled
                         /\ trace' = trace \o <<Ev("replace", CurU, "ok"),
                                                Ev("check_stop", CurU, "cancelled")>>
                    ELSE /\ results' = Append(results, ResultRecord(unit.gcs_uri))
                         /\ pc' = "var_loop"
                         /\ vi' = vi + 1
                         /\ unit' = NoUnit
                         /\ trace' = Append(trace, Ev("replace", CurU, "ok"))
                         /\ errors' = IF TemporaryDirectoryExit(rmtree_ok).raised
                                      THEN Append(errors, UnitErrorRecord("cleanup"))
                                      ELSE errors
                         /\ UNCHANGED <<ai, si, yi, aoi, var_slug_map>>
                 /\ UNCHANGED faults
               [] outcome = "error" ->
                 CommitExit(files, "error", "replace", <<Ev("replace", CurU, "error")>>,
                            unlink_ok)
          /\ UNCHANGED <<run, first_run, progress_cb, ret, summary, pure, job, stop>>
          /\ WithExit(rmtree_ok)

\* run_pipeline is called again with the same JobConfig on the same output
\* directory, after a first run that returned with no failure and no stop request.
\* The collaborators raise nothing in the second run.
RunAgain ==
    /\ pc = "returned"
    /\ run = 1
    /\ faults = 0
    /\ ~stop
    /\ run' = 2
    /\ first_run' = [ret |-> ret, files |-> files,
                 uuids |-> Cardinality({i \in DOMAIN trace : trace[i].op = "transform"})]
    /\ pc' = "start"
    /\ ai' = 0 /\ si' = 0 /\ yi' = 0 /\ vi' = 0
    /\ aoi' = NoAoi
    /\ unit' = NoUnit
    /\ var_slug_map' = <<>>
    /\ results' = <<>>
    /\ errors' = <<>>
    /\ trace' = <<>>
    /\ ret' = <<>>
    /\ summary' = NoSummary
    /\ faults' = MaxFaults
    /\ tmp_dir' = "none"
    /\ UNCHANGED <<job, files, stop, progress_cb, pure>>

Next ==
    \/ RequestStop
    \/ Setup
    \/ LoadAoi
    \/ Return
    \/ NextSeason
    \/ NextYear
    \/ BeginUnit
    \/ Extract
    \/ Transform
    \/ WriteCog
    \/ WriteCogEnd
    \/ UploadBegin
    \/ UploadEnd
    \/ Rename

Spec == Init /\ [][Next]_vars

\* Two runs in a row of the same JobConfig on the same output directory
NextTwoRuns ==
    \/ Next
    \/ RunAgain

SpecTwoRuns == Init /\ [][NextTwoRuns]_vars

----------------------------------------------------------------------------
(* The raster transforms and the registry lookup applied to bounded inputs *)

UpperChar(c) ==
    IF c \in Range(LowerChars)
    THEN UpperChars[CHOOSE i \in DOMAIN LowerChars : LowerChars[i] = c]
    ELSE c

\* Every spelling of a text in upper and lower case
RECURSIVE Casings(_)
Casings(s) ==
    IF s = <<>> THEN {<<>>}
    ELSE { <<c>> \o t : c \in {Head(s), UpperChar(Head(s))}, t \in Casings(Tail(s)) }

\* Names that no casing of a registered key spells
UnregisteredNames ==
    { T_bogus, <<>>, <<"n","d","v">>, <<"n","d","v","i"," ">>, <<" ","N","D","V","I">>,
      <<"n","d","_","v","i">>, <<"c","l","c","+">>, <<"A","L","P","H","A","E","A","R","T","H">> }

LookupNames == UNION { Casings(e.key) : e \in VariablesTable } \cup UnregisteredNames

Call(fn, arg) == [fn |-> fn, arg |-> arg, done |-> FALSE, out |-> <<>>]

\* The calls the functions are applied to: every raster, AOI and failure of a
\* library call for the transforms, every name for the lookup
IsFunctionCall(c) ==
    \/ \E d \in Rasters, g \in Aois, ce \in ClipErrors :
         c = Call("_clip_to_aoi", [data |-> d, aoi_geom |-> g, clip_error |-> ce])
    \/ \E d \in Rasters, g \in Aois, ce \in ClipErrors :
         c = Call("process_raster_to_target",
                  [data |-> d, aoi_geom |-> g,
                   env |-> [clip_error |-> ce, cast_error |-> "none"]])
    \/ \E d \in Rasters, g \in Aois, ce \in ClipErrors, ke \in CastErrors :
         c = Call("process_clcplus_to_target",
                  [data |-> d, aoi_geom |-> g,
                   env |-> [clip_error |-> ce, cast_error |-> ke]])
    \/ \E n \in LookupNames : c = Call("get_variable", n)
    \/ \E d \in DimLists : c = Call("_normalize_spatial_dims", d)

run_vars == <<job, pc, ai, si, yi, vi, aoi, unit, var_slug_map, results, errors,
              files, stop, faults, trace, progress_cb, ret, summary, run, first_run,
              tmp_dir>>

\* No run of _run is under way; one call of a function is about to be made
InitFunctions ==
    /\ IsFunctionCall(pure)
    /\ job = None
    /\ pc = "idle"
    /\ ai = 0 /\ si = 0 /\ yi = 0 /\ vi = 0
    /\ aoi = NoAoi
    /\ unit = NoUnit
    /\ var_slug_map = <<>>
    /\ results = <<>>
    /\ errors = <<>>
    /\ files = <<>>
    /\ stop = FALSE
    /\ faults = 0
    /\ trace = <<>>
    /\ progress_cb = "none"
    /\ ret = <<>>
    /\ summary = NoSummary
    /\ run = 1
    /\ first_run = NoFirst
    /\ tmp_dir = "none"

Returned(out) == [pure EXCEPT !.done = TRUE, !.out = out]

Apply_clip_to_aoi ==
    /\ pure.fn = "_clip_to_aoi" /\ ~pure.done
    /\ pure' = Returned(_clip_to_aoi(pure.arg.data, pure.arg.aoi_geom, pure.arg.clip_error))
    /\ UNCHANGED run_vars

Apply_process_raster_to_target ==
    /\ pure.fn = "process_raster_to_target" /\ ~pure.done
    /\ pure' = Returned(process_raster_to_target(pure.arg.data, pure.arg.aoi_geom, pure.arg.env))
    /\ UNCHANGED run_vars

Apply_process_clcplus_to_target ==
    /\ pure.fn = "process_clcplus_to_target" /\ ~pure.done
    /\ pure' = Returned(process_clcplus_to_target(pure.arg.data, pure.arg.aoi_geom, pure.arg.env))
    /\ UNCHANGED run_vars

Apply_get_variable ==
    /\ pure.fn = "get_variable" /\ ~pure.done
    /\ pure' = Returned(get_variable(pure.arg))
    /\ UNCHANGED run_vars

Apply_normalize_spatial_dims ==
    /\ pure.fn = "_normalize_spatial_dims" /\ ~pure.done
    /\ pure' = Returned(_normalize_spatial_dims(pure.arg))
    /\ UNCHANGED run_vars

NextFunctions ==
    \/ Apply_clip_to_aoi
    \/ Apply_process_raster_to_target
    \/ Apply_process_clcplus_to_target
    \/ Apply_get_variable
    \/ Apply_normalize_spatial_dims

SpecFunctions == InitFunctions /\ [][NextFunctions]_vars

----------------------------------------------------------------------------
(* Vocabulary of the properties *)

\* The collaborator calls and raising checkpoints of the step being taken
NewEvents == SubSeq(trace', Len(trace) + 1, Len(trace'))

UnitOps == {"extract", "transform", "write_cog", "upload", "replace"}

Has(evs, op, status) == \E i \in DOMAIN evs : evs[i].op = op /\ evs[i].status = status

\* The position of a value in a list of the configuration
IndexOf(seq, x) == CHOOSE i \in DOMAIN seq : seq[i] = x

Pos(u) == <<IndexOf(job.aoi_paths, u[1]), IndexOf(job.seasons, u[2]),
            IndexOf(job.years, u[3]), IndexOf(job.variables, u[4])>>

LexLess(p, q) ==
    \E k \in 1..4 : p[k] < q[k] /\ \A m \in 1..(k - 1) : p[m] = q[m]

UnitsUnder(aoi_path) ==
    { <<aoi_path, job.seasons[s], job.years[y], job.variables[v]>> :
        s \in DOMAIN job.seasons, y \in DOMAIN job.years, v \in DOMAIN job.variables }

AoisThat(status) ==
    { trace[i].u[1] : i \in {k \in DOMAIN trace : trace[k].op = "load_aoi"
                                                  /\ trace[k].status = status} }

UnitsWith(op) == { trace[i].u : i \in {k \in DOMAIN trace : trace[k].op = op} }

TmpNames == { n \in DOMAIN files : Head(n) = "." }

FinalUnchanged ==
    \A n \in AllFinalNames(job) :
        /\ (n \in DOMAIN files') = (n \in DOMAIN files)
        /\ n \in DOMAIN files => files'[n] = files[n]

\* The step appends exactly one ErrorRecord, for the unit in progress
OneUnitErrorRecord ==
    /\ Len(errors') = Len(errors) + 1
    /\ SubSeq(errors', 1, Len(errors)) = errors
    /\ LET r == errors'[Len(errors')]
       IN  /\ DOMAIN r = {"aoi", "aoi_path", "variable", "year", "season", "error"}
           /\ r.aoi_path = job.aoi_paths[ai]
           /\ r.variable = job.variables[vi]
           /\ r.year = job.years[yi]
           /\ r.season = job.seasons[si]

\* The step goes on to the next variable of the same year, season and AOI
GoesToNextUnit ==
    /\ pc' = "var_loop"
    /\ <<ai', si', yi', vi'>> = <<ai, si, yi, vi + 1>>

----------------------------------------------------------------------------
(* C1 *)

C1_StepFails ==
    \E i \in DOMAIN NewEvents :
        NewEvents[i].op \in UnitOps /\ NewEvents[i].status = "error"

C1_AllAttempted ==
    pc = "returned" =>
        \A a \in AoisThat("ok") : UnitsUnder(a) \subseteq UnitsWith("extract")

\* C1: when the extractor, the transform, write_cog, the upload or the rename of a
\* unit raises an ordinary error, that step appends exactly one ErrorRecord with the
\* unit's AOI, variable, year and season, leaves the results alone and goes on to
\* the next unit; a run that returns has attempted every unit of every loaded AOI.
C1_UnitFailureIsolated ==
    /\ [][C1_StepFails => OneUnitErrorRecord /\ results' = results /\ GoesToNextUnit]_vars
    /\ []C1_AllAttempted

\* A run returned after a unit failed, and a unit after the failed one produced a result
C1_Witness ==
    /\ pc = "returned"
    /\ \E i, j \in DOMAIN trace :
         /\ i < j
         /\ trace[i].op \in UnitOps /\ trace[i].status = "error"
         /\ trace[j].op = "replace" /\ trace[j].status = "ok"
         /\ trace[j].u # trace[i].u

----------------------------------------------------------------------------
(* C2 *)

C2_NoUnitOfFailedAoi ==
    \A i \in DOMAIN trace :
        trace[i].op \in UnitOps \cup {"get_variable"} => trace[i].u[1] \notin AoisThat("error")

C2_OthersRun ==
    pc = "returned" =>
        \A k \in DOMAIN job.aoi_paths :
            job.aoi_paths[k] \notin AoisThat("error") =>
                UnitsUnder(job.aoi_paths[k]) \subseteq UnitsWith("get_variable")

\* C2: when load_aoi or get_aoi_geometries raises an ordinary error for an AOI, that
\* step appends one ErrorRecord tagged with the AOI's path and moves to the next AOI;
\* no unit of the failed AOI is ever started, and a run that returns has started
\* every unit of every other AOI.
C2_AoiFailureIsolated ==
    /\ [][Has(NewEvents, "load_aoi", "error") =>
            /\ errors' = Append(errors, [aoi_path |-> job.aoi_paths[ai], error |-> "load_aoi"])
            /\ results' = results
            /\ pc' = "aoi_loop" /\ ai' = ai + 1]_vars
    /\ []C2_NoUnitOfFailedAoi
    /\ []C2_OthersRun

\* The first AOI failed to load and the run returned the results of the second
C2_Witness ==
    /\ pc = "returned"
    /\ Len(job.aoi_paths) = 2
    /\ job.aoi_paths[1] \in AoisThat("error")
    /\ \E k \in DOMAIN results : results[k].aoi_path = job.aoi_paths[2]

----------------------------------------------------------------------------
(* C3 *)

\* C3: in every state of a run, a file under a final name is completely written and,
\* when the storage kind is gcs_cog, uploaded; a partly written or not yet uploaded
\* file is only ever under a temporary name.
C3_FinalNamesComplete ==
    \A n \in DOMAIN files :
        (~files[n].complete \/ (job.kind = "gcs_cog" /\ ~files[n].uploaded))
            => (n \notin AllFinalNames(job) /\ Head(n) = ".")

\* An upload failed in a run in which another unit committed its final file
C3_Witness ==
    /\ Has(trace, "upload", "error")
    /\ \E n \in DOMAIN files : n \in AllFinalNames(job) /\ files[n].by # NoU

----------------------------------------------------------------------------
(* C4 *)

\* C4: with storage kind gcs_cog, every rename of a unit is preceded by that unit's
\* successful write_cog and, after it, that unit's successful upload.
C4_RenameAfterUpload ==
    job.kind = "gcs_cog" =>
        \A i \in DOMAIN trace :
            trace[i].op = "replace" =>
                \E k, j \in 1..(i - 1) :
                    /\ k < j
                    /\ trace[k] = Ev("write_cog", trace[i].u, "ok")
                    /\ trace[j] = Ev("upload", trace[i].u, "ok")

\* A gcs_cog unit was renamed into place
C4_Witness == job.kind = "gcs_cog" /\ Has(trace, "replace", "ok")

----------------------------------------------------------------------------
(* C5 *)

C5_Rest ==
    /\ FinalUnchanged
    /\ OneUnitErrorRecord
    /\ results' = results

\* C5 as stated: when upload_to_gcs raises, the unit ends with the temporary file
\* removed, the final name untouched, an ErrorRecord and no ResultRecord.
C5_TmpRemovedOnUploadFailure ==
    [][Has(NewEvents, "upload", "error") =>
          unit.tmp_output \notin DOMAIN files' /\ C5_Rest]_vars

\* C5 amended: when upload_to_gcs raises, the unit ends with the temporary file
\* removed unless its unlink raised too (that error is swallowed and the file stays),
\* the final name untouched, an ErrorRecord and no ResultRecord.
C5_TmpUnlinkAttemptedOnUploadFailure ==
    [][Has(NewEvents, "upload", "error") =>
          /\ unit.tmp_output \notin DOMAIN files' \/ Has(NewEvents, "unlink", "error")
          /\ C5_Rest]_vars

\* An upload failed and no temporary file is left
C5_Witness ==
    /\ Has(trace, "upload", "error")
    /\ ~Has(trace, "unlink", "error")
    /\ TmpNames = {}
    /\ pc = "var_loop"

----------------------------------------------------------------------------
(* C6 *)

\* C6: when should_stop is true at the checkpoint that precedes a unit, the step ends
\* the run as cancelled, calls no collaborator for the unit and leaves the results,
\* the errors and the files as they were; a cancelled run takes no further step.
C6_CancelBeforeUnit ==
    /\ [][(pc = "var_loop" /\ vi <= Len(job.variables) /\ stop) =>
            /\ pc' = "cancelled"
            /\ NewEvents = <<Ev("check_stop", UnitU(job.variables[vi]), "cancelled")>>
            /\ UNCHANGED <<results, errors, files>>]_vars
    /\ [][pc # "cancelled"]_vars

\* The run was cancelled at the checkpoint before a unit, after an earlier unit had
\* produced its result, which is still there
C6_Witness ==
    /\ pc = "cancelled"
    /\ Len(results) >= 1
    /\ LET last == trace[Len(trace)]
       IN  /\ last.op = "check_stop"
           /\ last.u[4] # <<>>
           /\ last.u \notin UnitsWith("get_variable")
    /\ \E n \in DOMAIN files : files[n].by # NoU

----------------------------------------------------------------------------
(* C7 *)

\* C7: a step in which a cancellation is signalled (by a checkpoint, by the AOI
\* loader or by the extractor) adds nothing to the errors and ends the run as
\* cancelled.
C7_CancellationNotAnError ==
    [][(\E i \in DOMAIN NewEvents : NewEvents[i].status = "cancelled") =>
          errors' = errors /\ pc' = "cancelled"]_vars

\* The extractor raised the cancellation in the middle of a unit
C7_Witness ==
    /\ pc = "cancelled"
    /\ Has(trace, "extract", "cancelled")
    /\ Len(errors) >= 1

----------------------------------------------------------------------------
(* C8 *)

C8_StepReturned ==
    \E i \in DOMAIN NewEvents :
        NewEvents[i].op \in {"extract", "transform", "write_cog", "upload"}
            /\ NewEvents[i].status = "ok"

\* C8: when extraction, the transform, the local write or the upload returns while
\* should_stop is true, the checkpoint after it ends the run as cancelled: the step
\* performs no rename, touches no final name and records no result, and a run that
\* ended takes no further step.
C8_CancelAfterStep ==
    /\ [][(C8_StepReturned /\ stop) =>
            /\ pc' = "cancelled"
            /\ Has(NewEvents, "check_stop", "cancelled")
            /\ \A i \in DOMAIN NewEvents : NewEvents[i].op # "replace"
            /\ FinalUnchanged
            /\ results' = results]_vars
    /\ [][pc \notin Terminal]_vars

\* The stop request arrived while the upload ran: the upload returned, the checkpoint
\* after it cancelled the run, and nothing is under the final name
C8_Witness ==
    /\ pc = "cancelled"
    /\ Len(trace) >= 2
    /\ trace[Len(trace) - 1].op = "upload" /\ trace[Len(trace) - 1].status = "ok"
    /\ trace[Len(trace)].op = "check_stop"
    /\ trace[Len(trace)].u = trace[Len(trace) - 1].u
    /\ unit.filename \notin DOMAIN files

----------------------------------------------------------------------------
(* C9 *)

C9_IsUnitEvent(e) == e.u[4] # <<>>

C9_AoiEvents == {i \in DOMAIN trace : trace[i].op = "load_aoi"}

\* C9: units run in the nested order AOI, season, year, variable, each list in its
\* configured order: the calls of a unit never precede those of a unit that is
\* earlier in (AOI, season, year, variable) position (the position never decreases
\* from one call of a unit to the next), a unit starts only when every
\* earlier unit of a loaded AOI has started, and AOIs are loaded in their order.
C9_NestedOrder ==
    LET ue == SelectSeq(trace, C9_IsUnitEvent)
        pos == [k \in DOMAIN ue |-> Pos(ue[k].u)]
        loaded == UNION {UnitsUnder(a) : a \in AoisThat("ok")}
        posOf == [u \in loaded |-> Pos(u)]
    IN
    /\ \A k \in 1..(Len(ue) - 1) : ~LexLess(pos[k + 1], pos[k])
    /\ \A k \in DOMAIN ue :
         ue[k].op = "get_variable" =>
            \A u \in loaded :
                LexLess(posOf[u], pos[k]) =>
                    \E m \in 1..(k - 1) : ue[m].op = "get_variable" /\ ue[m].u = u
    /\ \A i, j \in C9_AoiEvents :
         i < j => IndexOf(job.aoi_paths, trace[i].u[1]) < IndexOf(job.aoi_paths, trace[j].u[1])

\* A run over two seasons and two years returned all four results
C9_Witness ==
    /\ pc = "returned"
    /\ Len(job.seasons) = 2 /\ Len(job.years) = 2
    /\ Len(results) = 4

----------------------------------------------------------------------------
(* C10 *)

\* C10 as stated: a variable name that does not resolve in the registry produces an
\* ErrorRecord for its unit and the run goes on (it does not end by the KeyError).
C10_UnregisteredVariableRecorded ==
    \A i \in DOMAIN trace :
        (trace[i].op = "get_variable" /\ trace[i].status = "error") =>
            /\ pc # "raised"
            /\ \E k \in DOMAIN errors :
                 /\ "variable" \in DOMAIN errors[k]
                 /\ errors[k].variable = trace[i].u[4]

----------------------------------------------------------------------------
(* C11 *)

\* The name is a key of the registry once lowercased
C11_Resolves(name) == \E e \in VariablesTable : e.key = Lower(name)

----------------------------------------------------------------------------
(* C12 *)

C12_Completed(e) == e.op = "replace" /\ e.status = "ok"

\* C12: whatever the number of AOI and unit failures, a run that returns
\* returns exactly one ResultRecord per successfully completed unit, in
\* iteration order; the ErrorRecords show only in the final summary message,
\* "completed with N error(s)" instead of "Job completed."
C12_ReturnsResults ==
    pc = "returned" =>
        LET done == SelectSeq(trace, C12_Completed) IN
        /\ Len(ret) = Len(done)
        /\ \A k \in DOMAIN ret :
             /\ DOMAIN ret[k] = {"aoi", "aoi_path", "variable", "year", "season",
                                 "local_path", "gcs_uri"}
             /\ <<ret[k].aoi_path, ret[k].season, ret[k].year, ret[k].variable>> = done[k].u
        /\ \A k, l \in DOMAIN ret : k < l => LexLess(Pos(done[k].u), Pos(done[l].u))
        /\ summary.message = IF errors = <<>>
                             THEN "Job completed."
                             ELSE "Job completed with N error(s); see logs for details."
        /\ summary.N = Len(errors)

\* A run returned after one AOI and one unit failed and another unit completed
C12_Witness ==
    /\ pc = "returned"
    /\ ret # <<>>
    /\ \E i, k \in DOMAIN errors : "variable" \in DOMAIN errors[i]
                                   /\ "variable" \notin DOMAIN errors[k]
    /\ summary.N = 2

----------------------------------------------------------------------------
(* C13 *)

\* C13: an exception of the progress callback, at any notification point, is
\* swallowed by _notify: it adds no ErrorRecord, fails no unit, changes no
\* result and the run goes on with the statement after the notification
C13_CallbackFailureSwallowed ==
    [][progress_cb = "raises" =>
          /\ errors' # errors =>
                \E i \in DOMAIN NewEvents : NewEvents[i].status = "error"
          /\ (pc' = "raised" /\ pc # "raised") => Has(NewEvents, "get_variable", "error")
          /\ results' # results => Has(NewEvents, "replace", "ok")
          /\ (Has(NewEvents, "replace", "ok") /\ ~Has(NewEvents, "check_stop", "cancelled"))
                => Len(results') = Len(results) + 1
          /\ (pc = "start" /\ pc' # pc /\ ~stop) => pc' = "aoi_loop"
          /\ (Has(NewEvents, "load_aoi", "ok")) => pc' = "season_loop"
          /\ (Has(NewEvents, "get_variable", "ok")) => pc' = "extract"
          /\ (Has(NewEvents, "extract", "ok") /\ ~stop) => pc' = "transform"
          /\ (Has(NewEvents, "transform", "ok") /\ ~stop) => pc' = "write"
          /\ (Has(NewEvents, "upload", "ok") /\ ~stop) => pc' = "rename"
    ]_vars

\* A whole run whose progress callback raised at every notification: every unit
\* completed and nothing was recorded as failed
C13_Witness ==
    /\ progress_cb = "raises"
    /\ pc = "returned"
    /\ errors = <<>>
    /\ Len(ret) = Len(job.aoi_paths) * Len(job.seasons) * Len(job.years) * Len(job.variables)
    /\ summary.message = "Job completed."

----------------------------------------------------------------------------
(* C14 *)

\* C14: when the extractor returned (path, effective resolution) the transform
\* is called with the effective resolution, not the requested one; when it
\* returned a bare path the transform is called with the requested resolution
C14_TransformResolution ==
    [][(pc = "transform" /\ pc' = "write") =>
          /\ unit'.transform_call.src_path = unit.raw_result.path
          /\ unit'.transform_call.resolution_m =
                IF unit.raw_result.tuple THEN unit.raw_result.res ELSE job.resolution_m
    ]_vars

\* The transform was called with an effective resolution that is not the requested one
C14_Witness ==
    /\ pc = "write"
    /\ unit.raw_result.tuple
    /\ unit.raw_result.res # job.resolution_m
    /\ unit.transform_call.resolution_m = unit.raw_result.res

----------------------------------------------------------------------------
(* C15 - C20: the transforms and the lookup, under SpecFunctions *)

Called(fn) == pure.fn = fn /\ pure.done

IsTransform == pure.fn \in {"process_raster_to_target", "process_clcplus_to_target"}

\* What the two clips of rioxarray do on the arguments of the call
ExactClip(arg, clip_error) ==
    rio_clip(arg.data, arg.aoi_geom, FALSE, clip_error \in {"exact", "both"})
TouchedClip(arg, clip_error) ==
    rio_clip(arg.data, arg.aoi_geom, TRUE, clip_error = "both")

\* C15: in _clip_to_aoi, when the exact clip raises and the all-touched clip
\* succeeds the result is the all-touched clip and nothing is raised; the
\* all-touched clip is attempted only after the exact clip raised
C15_AllTouchedAfterExactFailed ==
    Called("_clip_to_aoi") =>
        LET exact == ExactClip(pure.arg, pure.arg.clip_error)
            touched == TouchedClip(pure.arg, pure.arg.clip_error)
            calls == pure.out.calls
        IN  /\ (exact.raised /\ ~touched.raised) =>
                  /\ ~pure.out.raised
                  /\ pure.out.data = touched.data
            /\ calls[1] = "clip"
            /\ (\E i \in DOMAIN calls : calls[i] = "clip_all_touched") <=> exact.raised
            /\ \A i \in DOMAIN calls : calls[i] = "clip_all_touched" => i = 2

\* The exact clip raised (a sliver between two cell centres), the all-touched clip
\* returned the cells the AOI overlaps
C15_Witness ==
    /\ Called("_clip_to_aoi")
    /\ pure.arg.clip_error = "none"
    /\ ExactClip(pure.arg, "none").raised
    /\ ~pure.out.raised
    /\ pure.out.tier = "all_touched"
    /\ Len(pure.out.data.px) < Len(pure.arg.data.px)

\* C16: when the extent of the raster does not intersect the AOI the transform
\* raises and never returns the un-clipped raster
C16_DisjointRaises ==
    (IsTransform /\ pure.done /\ ~Intersects(RasterBox(pure.arg.data), pure.arg.aoi_geom)) =>
        /\ pure.out.raised
        /\ pure.out.px = <<>>
        /\ pure.out.tier # "unclipped"

\* A transform applied to an AOI that lies beyond the raster
C16_Witness ==
    /\ IsTransform /\ pure.done
    /\ pure.arg.aoi_geom.lo > RasterBox(pure.arg.data).hi
    /\ pure.arg.env.clip_error = "none"
    /\ pure.out.raised

\* C17: when both clips raise and the extent of the raster intersects the AOI,
\* _clip_to_aoi returns the reprojected raster unchanged and raises nothing, so
\* the transform returns an output; in no other case is the raster returned un-clipped
C17_UnclippedFallback ==
    /\ Called("_clip_to_aoi") =>
         LET both == /\ ExactClip(pure.arg, pure.arg.clip_error).raised
                     /\ TouchedClip(pure.arg, pure.arg.clip_error).raised
             meets == Intersects(RasterBox(pure.arg.data), pure.arg.aoi_geom)
         IN  /\ (both /\ meets) => (~pure.out.raised /\ pure.out.data = pure.arg.data)
             /\ pure.out.tier = "unclipped" <=> (both /\ meets)
    /\ (IsTransform /\ pure.done) =>
         LET both == /\ ExactClip(pure.arg, pure.arg.env.clip_error).raised
                     /\ TouchedClip(pure.arg, pure.arg.env.clip_error).raised
             meets == Intersects(RasterBox(pure.arg.data), pure.arg.aoi_geom)
         IN  /\ (both /\ meets) => (~pure.out.raised /\ pure.out.clipped = pure.arg.data.px)
             /\ pure.out.tier = "unclipped" <=> (both /\ meets)

\* Nothing is broken, the AOI only touches the edge of the raster: both clips find
\* no cell, the extents intersect, the raster comes back whole
C17_Witness ==
    /\ Called("_clip_to_aoi")
    /\ pure.arg.clip_error = "none"
    /\ pure.arg.aoi_geom.lo = RasterBox(pure.arg.data).hi
    /\ pure.out.tier = "unclipped"
    /\ pure.out.data = pure.arg.data

\* The pixels of a CLCplus output: -999 where the clipped raster is missing or 0,
\* the class value everywhere else
C18_Recoded ==
    /\ Len(pure.out.px) = Len(pure.out.clipped)
    /\ \A k \in DOMAIN pure.out.clipped :
         LET before == pure.out.clipped[k]
         IN  pure.out.px[k] = IF before.nan \/ before.v = 0 THEN Val(-999) ELSE before

\* C18 as claimed: for every classification raster process_clcplus_to_target
\* processes, every pixel missing after the clip and every pixel equal to 0 is
\* -999, every other pixel keeps its class value, and the declared nodata is -999
C18_RecodedAndDeclared ==
    (Called("process_clcplus_to_target") /\ ~pure.out.raised) =>
        /\ C18_Recoded
        /\ pure.out.nodata = Val(-999)

\* C18 amended: the pixels always; the declared nodata is -999 unless the int32
\* cast or the nodata assignment raised, which is logged and ignored
C18_RecodedAndDeclaredUnlessCastFailed ==
    (Called("process_clcplus_to_target") /\ ~pure.out.raised) =>
        /\ C18_Recoded
        /\ pure.out.nodata # Val(-999) => (pure.out.logged /\ pure.arg.env.cast_error # "none")
        /\ pure.arg.env.cast_error = "none" =>
              (pure.out.nodata = Val(-999) /\ pure.out.dtype = "int32")

\* A raster with a missing pixel, a 0 and a class value was recoded
C18_Witness ==
    /\ Called("process_clcplus_to_target")
    /\ ~pure.out.raised
    /\ pure.arg.env.cast_error = "none"
    /\ \E i, j, k \in DOMAIN pure.out.clipped :
         /\ pure.out.clipped[i].nan /\ pure.out.px[i] = Val(-999)
         /\ pure.out.clipped[j] = Val(0) /\ pure.out.px[j] = Val(-999)
         /\ pure.out.clipped[k] = Val(2) /\ pure.out.px[k] = Val(2)
    /\ pure.out.nodata = Val(-999)

\* C19 as claimed: for CLCplus, pixel values 0 and nodata are remapped to -9999,
\* as the note of the variable's metadata says
C19_RemappedToNoteValue ==
    (Called("process_clcplus_to_target") /\ ~pure.out.raised) =>
        \A k \in DOMAIN pure.out.clipped :
            (pure.out.clipped[k].nan \/ pure.out.clipped[k].v = 0) =>
                pure.out.px[k] = Val(METADATA_NOTE_NODATA)

\* C20: get_variable resolves a name whatever its casing: a name whose lowercase
\* form is a key of the table gets that key's extractor and transform, every
\* other name raises KeyError and gets no binding
C20_CaseInsensitiveLookup ==
    Called("get_variable") =>
        LET key == Lower(pure.arg)
            hit == {e \in VariablesTable : e.key = key}
        IN  IF hit = {}
            THEN /\ pure.out.raised = "KeyError"
                 /\ pure.out.extractor = "none"
                 /\ pure.out.transform = "none"
            ELSE \A e \in hit :
                   /\ pure.out.raised = "none"
                   /\ pure.out.extractor = e.extractor
                   /\ pure.out.transform = e.transform

\* A key spelled in mixed case resolved to the binding of clcplus
C20_Witness ==
    /\ Called("get_variable")
    /\ pure.arg = <<"C","l","c","P","L","U","S">>
    /\ pure.out.raised = "none"
    /\ pure.out.transform = "process_clcplus_to_target"

----------------------------------------------------------------------------
(* C21 *)

\* The unit in progress completes in this step
C21_UnitSucceeds ==
    Has(NewEvents, "replace", "ok") /\ ~Has(NewEvents, "check_stop", "cancelled")

\* {variable-slug}_{year}_{season-slug}_{aoi-slug}.tif of the unit in progress
C21_ExpectedName ==
    FinalName(_slugify_name(job.variables[vi]), job.years[yi],
              _slugify_name(job.seasons[si]), _slugify_name(PathStem(job.aoi_paths[ai])))

\* C21: every successful unit commits its output under the final name
\* {variable-slug}_{year}_{season-slug}_{aoi-slug}.tif and its ResultRecord's
\* local_path is that file; the gcs_uri of the record is null exactly when the
\* storage kind is not gcs_cog, and is the URI the upload returned otherwise
C21_FinalNameAndRecord ==
    [][C21_UnitSucceeds =>
          /\ C21_ExpectedName \in DOMAIN files'
          /\ files'[C21_ExpectedName] = FileOf(TRUE, job.kind = "gcs_cog", CurU)
          /\ Len(results') = Len(results) + 1
          /\ LET r == results'[Len(results')]
             IN  /\ r.local_path = C21_ExpectedName
                 /\ (r.gcs_uri = None) <=> (job.kind # "gcs_cog")
                 /\ job.kind = "gcs_cog" =>
                       /\ r.gcs_uri = unit.gcs_uri
                       /\ Has(trace, "upload", "ok")
                       /\ r.gcs_uri = GcsUri(unit.tmp_output)
    ]_vars

\* A gcs_cog run returned a record with the final name and the URI of its upload
C21_Witness ==
    /\ pc = "returned"
    /\ job.kind = "gcs_cog"
    /\ \E k \in DOMAIN ret :
         /\ ret[k].gcs_uri # None
         /\ ret[k].local_path \in DOMAIN files
         /\ ret[k].local_path = <<"n","d","v","i","_","2","0","2","3","_",
                                  "s","u","m","m","e","r","_","a",".","t","i","f">>

----------------------------------------------------------------------------
(* C22 *)

C22_FinalFiles(fs) == {n \in DOMAIN fs : Head(n) # "."}

C22_SecondRunReturned == run = 2 /\ pc = "returned" /\ errors = <<>>

\* The output directory after the second run has the final names, and the content
\* under each, that it had after the first
C22_SameFiles ==
    C22_SecondRunReturned =>
        /\ C22_FinalFiles(files) = C22_FinalFiles(first_run.files)
        /\ \A n \in C22_FinalFiles(files) : files[n] = first_run.files[n]

\* C22: the same JobConfig run twice in a row on the same output directory, with
\* deterministic extractors and no failure, leaves the same set of final file
\* names with the same content under each, and both runs return the same list
\* of ResultRecords
C22_Idempotent ==
    /\ C22_SameFiles
    /\ C22_SecondRunReturned => ret = first_run.ret

----------------------------------------------------------------------------
(* C23 *)

C23_ResultsOf(u) ==
    { i \in DOMAIN results :
        <<results[i].aoi_path, results[i].season, results[i].year, results[i].variable>> = u }

C23_IsUnitError(r) == "variable" \in DOMAIN r

C23_ErrorsOf(u) ==
    { i \in DOMAIN errors :
        /\ C23_IsUnitError(errors[i])
        /\ <<errors[i].aoi_path, errors[i].season, errors[i].year, errors[i].variable>> = u }

C23_AoiErrorsOf(aoi_path) ==
    { i \in DOMAIN errors : ~C23_IsUnitError(errors[i]) /\ errors[i].aoi_path = aoi_path }

C23_OneRecordPerUnit ==
    /\ \A p \in AoisThat("ok") : \A u \in UnitsUnder(p) :
          /\ Cardinality(C23_ResultsOf(u)) + Cardinality(C23_ErrorsOf(u)) = 1
          /\ (C23_ResultsOf(u) # {}) =
                (\E i \in DOMAIN trace : trace[i] = Ev("replace", u, "ok"))
    /\ \A p \in AoisThat("error") :
          /\ Cardinality(C23_AoiErrorsOf(p)) = 1
          /\ \A u \in UnitsUnder(p) : C23_ResultsOf(u) = {} /\ C23_ErrorsOf(u) = {}
    /\ Len(results) + Cardinality({ i \in DOMAIN errors : C23_IsUnitError(errors[i]) })
          = Cardinality(AoisThat("ok")) * Len(job.seasons) * Len(job.years)
               * Len(job.variables)

\* C23 as stated: when a run has ended without cancellation (it returned, or an
\* exception left it), every unit of every loaded AOI has exactly one record, a
\* ResultRecord when its steps succeeded and an ErrorRecord otherwise, every AOI
\* that failed to load has exactly one ErrorRecord and no unit records, and the
\* records add up to loaded AOIs x seasons x years x variables.
C23_OneRecordPerUnitWithoutCancellation ==
    pc \in {"returned", "raised"} => C23_OneRecordPerUnit

\* What the code does keep: the count holds for every run that returns
C23_ReturnedRunCounts ==
    pc = "returned" => C23_OneRecordPerUnit

----------------------------------------------------------------------------
(* C24 *)

\* The step leaves the unit's try block: the unit ends, by success, error or cancellation
C24_UnitEnds == pc \in InWith \cup {"extract"} /\ pc' \notin InWith \cup {"extract"}

\* The step ends a unit whose steps all succeeded, and the removal of its
\* temporary directory failed
C24_SucceedsButCleanupFails ==
    /\ Has(NewEvents, "replace", "ok")
    /\ ~Has(NewEvents, "check_stop", "cancelled")
    /\ tmp_dir' = "left"

\* C24: the removal of the unit's temporary directory is attempted on every exit of
\* the unit (success, failure, cancellation), and when it fails for a unit whose
\* steps all succeeded, the unit still gets its ResultRecord and no ErrorRecord,
\* its final file stays committed, and the run goes on to the next unit.
C24_CleanupFailureKeepsOutcome ==
    [][/\ C24_UnitEnds => tmp_dir' \in {"removed", "left"}
       /\ pc' \in InWith => tmp_dir' = "open"
       /\ C24_SucceedsButCleanupFails =>
            /\ results' = Append(results, ResultRecord(unit.gcs_uri))
            /\ errors' = errors
            /\ unit.filename \in DOMAIN files'
            /\ files'[unit.filename] = files[unit.tmp_output]
            /\ pc' = "var_loop" /\ vi' = vi + 1]_vars

\* A unit has just succeeded although its temporary directory could not be removed
C24_Witness ==
    /\ tmp_dir = "left"
    /\ pc = "var_loop" /\ vi > 1
    /\ results # <<>>
    /\ results[Len(results)].variable = job.variables[vi - 1]
    /\ results[Len(results)].local_path \in DOMAIN files
    /\ errors = <<>>

----------------------------------------------------------------------------
(* C25 *)

\* The cast or the nodata assignment of a CLCplus call raised, and the clip did not
C25_CastFailed ==
    /\ Called("process_clcplus_to_target")
    /\ pure.arg.env.cast_error # "none"
    /\ ~_clip_to_aoi(pure.arg.data, pure.arg.aoi_geom, pure.arg.env.clip_error).raised

\* C25: in process_clcplus_to_target, when the cast to int32 or the nodata
\* assignment raises, the error is logged and not propagated: the function returns,
\* and the raster it wrote has the -999 fill applied to every missing and every 0
\* pixel.
C25_CastFailureLoggedNotRaised ==
    C25_CastFailed =>
        /\ ~pure.out.raised
        /\ pure.out.logged
        /\ pure.out.px = where_ne(fillna(pure.out.clipped, CLCPLUS_NODATA), 0, CLCPLUS_NODATA)
        /\ \A k \in DOMAIN pure.out.px : pure.out.px[k] \notin {NaN, Val(0)}

\* The cast raised on a raster with a missing pixel; the raster was written, filled
C25_Witness ==
    /\ C25_CastFailed
    /\ pure.arg.env.cast_error = "astype"
    /\ ~pure.out.raised /\ pure.out.logged
    /\ \E k \in DOMAIN pure.out.clipped :
         pure.out.clipped[k].nan /\ pure.out.px[k] = Val(CLCPLUS_NODATA)

----------------------------------------------------------------------------
(* C26 *)

\* The axes of the call that are left after the singleton band and variable axes
\* are collapsed, and those of them that are neither band nor variable
C26_Remaining ==
    LET data == squeeze_singleton(squeeze_singleton(pure.arg, "band"), "variable")
    IN  [i \in DOMAIN data |-> data[i].name]

C26_Spatial == SelectSeq(C26_Remaining, LAMBDA d : d \notin {"band", "variable"})

\* The two named axes are relabelled y and x, every other axis keeps its name
C26_Relabelled(y_dim, x_dim) ==
    /\ pure.out.raised = "none"
    /\ Len(pure.out.dims) = Len(C26_Remaining)
    /\ \A i \in DOMAIN C26_Remaining :
         pure.out.dims[i] = IF C26_Remaining[i] = x_dim THEN "x"
                            ELSE IF C26_Remaining[i] = y_dim THEN "y"
                            ELSE C26_Remaining[i]

----------------------------------------------------------------------------
(* C27 *)

\* _run is between write_cog and the end of the commit block of a unit
C27_InCommitBlock == pc \in {"writing", "upload", "uploading", "rename"}

C27_OwnTmp(n) == C27_InCommitBlock /\ n = unit.tmp_output

\* C27 as stated: a temporary sibling file exists only while the unit that created
\* it is between write_cog and the end of its commit block; after a unit has
\* ended, by success, error or cancellation, none of its temporary files remains.
C27_NoTmpOutsideCommitBlock ==
    \A n \in TmpNames : C27_OwnTmp(n)

\* C27 amended: a temporary sibling file exists only while the unit that created it
\* is between write_cog and the end of its commit block, or after that unit ended
\* by an error or a cancellation and the unlink of the file in the `finally`
\* raised, which is swallowed.
C27_NoTmpUnlessUnlinkFailed ==
    \A n \in TmpNames :
        \/ C27_OwnTmp(n)
        \/ \E i \in DOMAIN trace : trace[i] = Ev("unlink", files[n].by, "error")

\* A unit was cancelled right after write_cog had written its temporary file, the
\* unlink worked, and no temporary file is left
C27_Witness ==
    /\ pc = "cancelled"
    /\ Len(trace) >= 2
    /\ trace[Len(trace) - 1].op = "write_cog"
    /\ trace[Len(trace) - 1].status = "ok"
    /\ trace[Len(trace)].op = "check_stop"
    /\ TmpNames = {}

----------------------------------------------------------------------------
(* C28 *)

\* The units of the run whose temporary file was renamed to its final name
C28_Committed ==
    { trace[i].u : i \in {k \in DOMAIN trace : trace[k] = Ev("replace", trace[k].u, "ok")} }

\* C28 as stated: whenever a run has ended, by its return or by a cancellation,
\* every final file the run committed by a rename has a matching ResultRecord in
\* the results list: no unit is renamed and then ended without its ResultRecord.
C28_CommittedHasResultRecord ==
    pc \in {"returned", "cancelled"} =>
        \A u \in C28_Committed : C23_ResultsOf(u) # {}

\* What the code keeps: the records of a run that returned
C28_ReturnedCommittedHasResultRecord ==
    pc = "returned" => \A u \in C28_Committed : C23_ResultsOf(u) # {}

----------------------------------------------------------------------------
(* C29 *)

\* C29 as stated: within one run no two units commit to the same final name: the
\* local_path values of the ResultRecords are pairwise distinct, whatever the
\* configured names, names that differ only in case included.
C29_DistinctLocalPaths ==
    \A i, j \in DOMAIN results :
        i # j => results[i].local_path # results[j].local_path

----------------------------------------------------------------------------
(* C30 *)

\* Every step of the unit in progress up to the rename succeeded
C30_AllStepsSucceeded ==
    /\ \A op \in {"extract", "transform", "write_cog"} :
          \E i \in DOMAIN trace : trace[i] = Ev(op, CurU, "ok")
    /\ job.kind = "gcs_cog" => \E i \in DOMAIN trace : trace[i] = Ev("upload", CurU, "ok")
    /\ ~\E i \in DOMAIN trace : trace[i].u = CurU /\ trace[i].status # "ok"

\* C30: a file that exists under a final name stays there with its content in
\* every step of a run, except in the one step that renames the temporary file of
\* a unit to that name, which is taken only when every step of the unit up to the
\* rename succeeded and puts the complete temporary file in its place; so a unit
\* that fails or is cancelled before the rename leaves the earlier file unchanged.
C30_FinalReplacedOnlyByRename ==
    [][\A n \in {m \in DOMAIN files : Head(m) # "."} :
          /\ n \in DOMAIN files'
          /\ files'[n] # files[n] =>
                /\ Has(NewEvents, "replace", "ok")
                /\ n = unit.filename
                /\ unit.tmp_output \in DOMAIN files
                /\ files'[n] = files[unit.tmp_output]
                /\ files'[n].complete
                /\ C30_AllStepsSucceeded]_vars

\* A unit failed in its commit block while a file of an earlier run was under its
\* final name, and that file is still there as it was
C30_Witness ==
    /\ pc = "var_loop" /\ vi = 2
    /\ results = <<>> /\ Len(errors) = 1
    /\ Has(trace, "write_cog", "ok")
    /\ \E i \in DOMAIN trace : trace[i].op \in {"upload", "replace"} /\ trace[i].status = "error"
    /\ \A n \in DOMAIN files : Head(n) # "." /\ files[n].by = NoU
    /\ files # <<>>

====
